---- MODULE Spec2Model ----
(***************************************************************************)
(* Model of the SQS queue consumer of clutter/aws/sqs.py (class            *)
(* SqsListener): the topology bootstrap of _initialize_client and the      *)
(* receive / parse / handle / delete / publish loop of _start_listening,   *)
(* together with the part of the queue service the consumer observes.      *)
(*                                                                         *)
(* Queue names and queue URLs are sequences of characters, so that the     *)
(* suffix test of line 89 and the split of line 76 are computed.  Python's *)
(* None is the empty sequence; the empty string is not enumerated as a     *)
(* configuration value.                                                    *)
(***************************************************************************)
EXTENDS Integers, Sequences, FiniteSets, TLC

\* ------------------------------------------------------------------ bounds
\* number of distinct messages producers ever send to the source queue
NumMsgs == 3
\* number of receive calls that return a non-empty batch
MaxReceives == 3
\* number of times the consumer is constructed (runs of _initialize_client)
MaxRuns == 2
\* largest configured max_number_of_messages
MaxBatch == 2

\* ------------------------------------------------------- names and values
None == <<>>

\* the conf keys __init__ pops without a default
CredentialKeys == {"aws.access.key.id", "aws.secret.key.id"}
PoppedKeys == CredentialKeys \cup {"queue"}

FifoSuffix == <<".", "f", "i", "f", "o">>

\* the queue names configurations are drawn from
NameJobs == <<"j">>
NameJobsFifo == <<"j">> \o FifoSuffix
NameErrors == <<"e">>
NameErrorsFifo == <<"e">> \o FifoSuffix
NameOther == <<"j", "2">>

QueueNameChoices == {NameJobs, NameJobsFifo}
ErrorQueueNameChoices == {None, NameErrors, NameErrorsFifo, NameJobs}

\* the URL the service gives a queue: endpoint, account, name
UrlPrefix == <<"h", ":", "/", "/", "q", "/", "0", "/">>
QueueUrlOf(name) == UrlPrefix \o name

\* the URL compared unsplit
LastSegment_NoSplit(q) == q

\* q.split("/")[-1]
RECURSIVE LastSegment(_)
LastSegment(q) ==
    IF \E i \in 1..Len(q) : q[i] = "/"
    THEN LastSegment(Tail(q))
    ELSE q

\* str.endswith
EndsWith(s, suffix) ==
    /\ Len(s) >= Len(suffix)
    /\ SubSeq(s, Len(s) - Len(suffix) + 1, Len(s)) = suffix

\* the attributes of the create_queue call for the main queue
DefaultVisibilityTimeout == "600"
MainQueueAttributes(name, vt) ==
    IF EndsWith(name, FifoSuffix)
    THEN [VisibilityTimeout |-> vt, FifoQueue |-> "true"]
    ELSE [VisibilityTimeout |-> vt, FifoQueue |-> "absent"]

\* the attributes of the create_queue call for the error queue
ErrorQueueAttributes(name, vt) ==
    [VisibilityTimeout |-> vt, FifoQueue |-> "absent"]

\* ---------------------------------------------------------------- bodies
Msgs == 1..NumMsgs

Bodies == <<"{\"id\": 42}", "{id: 42", "[1, 2]">>
DecodeFailure == "JSONDecodeError"

\* json.loads on the bodies producers send: the decoded value, or the
\* marker of the exception the bare except of line 142 catches
JsonLoads(body) ==
    CASE body = "{\"id\": 42}" -> "dict(id=42)"
      [] body = "[1, 2]" -> "list(1,2)"
      [] OTHER -> DecodeFailure

BodyOf(m) == Bodies[((m - 1) % Len(Bodies)) + 1]

\* ------------------------------------------------------------ exceptions
\* exceptions a Handler raises (subclasses of Exception)
HandlerExceptions ==
    { [module |-> "builtins", name |-> "ValueError", args |-> <<"bad id">>],
      [module |-> "app.errors", name |-> "OrderError", args |-> <<"a", "b">>],
      [module |-> "builtins", name |-> "KeyError", args |-> <<>>] }

\* the exception boto3 raises when delete_message fails
ClientError ==
    [module |-> "botocore.exceptions", name |-> "ClientError",
     args |-> <<"DeleteMessage failed">>]

NoException == [module |-> "", name |-> "", args |-> <<>>]

\* str(exc_type): the string form of a class object
StrOfType(ex) ==
    IF ex.module = "builtins"
    THEN "<class '" \o ex.name \o "'>"
    ELSE "<class '" \o ex.module \o "." \o ex.name \o "'>"

\* repr of a str without quotes or escapes in it
ReprStr(s) == "'" \o s \o "'"

RECURSIVE JoinRepr(_)
JoinRepr(args) ==
    IF Len(args) = 1
    THEN ReprStr(args[1])
    ELSE ReprStr(args[1]) \o ", " \o JoinRepr(Tail(args))

\* a 1-tuple printed without its trailing comma
StrOfArgs_NoComma(args) ==
    IF Len(args) = 0 THEN "()" ELSE "(" \o JoinRepr(args) \o ")"

\* str(ex.args): the string form of a tuple of strings
StrOfArgs(args) ==
    CASE Len(args) = 0 -> "()"
      [] Len(args) = 1 -> "(" \o ReprStr(args[1]) \o ",)"
      [] OTHER -> "(" \o JoinRepr(args) \o ")"

\* the dict handed to launch_message
FailureRecord(ex) ==
    [exception_type |-> StrOfType(ex), error_message |-> StrOfArgs(ex.args)]

\* ----------------------------------------------------------------- state
VARIABLES
    conf,            \* the configuration the consumer is constructed from
    queue_url,       \* self._queue_url
    mainQueueExists, \* local of _initialize_client
    errorQueueExists,\* local of _initialize_client
    pc,              \* position of the consumer
    runs,            \* completed or started runs of _initialize_client
    queues,          \* queue names that exist in the queue service
    creates,         \* create_queue calls issued by _initialize_client
    unsent,          \* messages producers have not sent yet
    inQueue,         \* messages in the source queue
    inFlight,        \* messages received and hidden by the visibility timeout
    receives,        \* receive calls that returned messages
    batch,           \* messages["Messages"] of the current receive
    idx,             \* position of the for loop in batch
    exc,             \* the exception caught at line 156
    trace,           \* service and Handler calls made for batch[idx]
    idle,            \* what the loop did since a receive returned no messages
    handled          \* messages handle_message was called for, over all receives

vars == <<conf, queue_url, mainQueueExists, errorQueueExists, pc, runs, queues,
          creates, unsent, inQueue, inFlight, receives, batch, idx, exc, trace,
          idle, handled>>

topologyVars == <<mainQueueExists, errorQueueExists, runs, creates>>
loopVars == <<unsent, inQueue, inFlight, receives, batch, idx, exc, trace,
              idle, handled>>

\* ------------------------------------------------------------------ Init
\* SqsListener.__init__: the fields read from conf; the queue service holds
\* any of the queues other programs or earlier runs created
\* a configured queue_url, when present, is the URL of the configured queue
\* present: which of the keys __init__ pops without a default are in conf;
\* an absent queue key, or one set to None, leaves conf.queue None
Configs ==
    { c \in [queue : QueueNameChoices \cup {None},
             error_queue : ErrorQueueNameChoices,
             queue_url : {None} \cup {QueueUrlOf(n) : n \in QueueNameChoices},
             force_delete : BOOLEAN,
             max_number_of_messages : 1..MaxBatch,
             present : SUBSET PoppedKeys] :
        /\ c.queue_url \in {None, QueueUrlOf(c.queue)}
        /\ c.queue = None => c.queue_url = None
        /\ "queue" \notin c.present => c.queue = None }

Init ==
    /\ conf \in Configs
    /\ queue_url = None
    /\ mainQueueExists = FALSE
    /\ errorQueueExists = FALSE
    /\ pc = "construct"
    /\ runs = 1
    /\ queues \in SUBSET (({conf.queue, NameOther} \ {None}) \cup
                          (IF conf.error_queue # None THEN {conf.error_queue} ELSE {}))
    /\ creates = <<>>
    /\ unsent = Msgs
    /\ inQueue = {}
    /\ inFlight = {}
    /\ receives = 0
    /\ batch = <<>>
    /\ idx = 0
    /\ exc = NoException
    /\ trace = <<>>
    /\ idle = <<>>
    /\ handled = {}

\* ------------------------------------------------------------ __init__
\* a constructor that does not require the queue key
ConfError_QueueUnchecked(c) ==
    IF ~(CredentialKeys \subseteq c.present) THEN "KeyError" ELSE "none"

\* lines 38-44: the exception the reading of conf raises, or "none"
ConfError(c) ==
    IF ~(CredentialKeys \subseteq c.present) THEN "KeyError"
    ELSE IF "queue" \notin c.present THEN "KeyError"
    ELSE IF c.queue = None THEN "AssertionError"
    ELSE "none"

\* lines 38-60: __init__ reads conf before it calls _initialize_client
ReadConf ==
    /\ pc = "construct"
    /\ IF ConfError(conf) = "none"
       THEN /\ queue_url' = conf.queue_url
            /\ pc' = "list_queues"
       ELSE /\ queue_url' = queue_url
            /\ pc' = "conf_error"
    /\ UNCHANGED <<conf, queues>>
    /\ UNCHANGED topologyVars
    /\ UNCHANGED loopVars

\* ------------------------------------------------- _initialize_client
\* sqs.list_queues() and the scan of its QueueUrls
ListQueues ==
    /\ pc = "list_queues"
    /\ LET urls == {QueueUrlOf(n) : n \in queues}
       IN /\ mainQueueExists' =
                (\E q \in urls : LastSegment(q) = conf.queue)
          /\ errorQueueExists' =
                (\E q \in urls : /\ conf.error_queue # None
                                 /\ LastSegment(q) = conf.error_queue)
    /\ pc' = "main_queue"
    /\ UNCHANGED <<conf, queue_url, runs, queues, creates>>
    /\ UNCHANGED loopVars

\* a remote call of _initialize_client raises: construction is aborted
TopologyFails ==
    /\ \/ pc = "list_queues"
       \/ pc = "main_queue" /\ queue_url = None /\ ~mainQueueExists
       \/ pc = "error_queue" /\ conf.error_queue # None /\ ~errorQueueExists
    /\ pc' = "aborted"
    /\ UNCHANGED <<conf, queue_url, queues>>
    /\ UNCHANGED topologyVars
    /\ UNCHANGED loopVars

CreateCall(name, attrs) ==
    [run |-> runs, QueueName |-> name, Attributes |-> attrs,
     existed |-> name \in queues]

\* lines 84-106: create the main queue if no URL is known and it was not listed
EnsureMainQueue ==
    /\ pc = "main_queue"
    /\ IF queue_url = None /\ ~mainQueueExists
       THEN /\ creates' = Append(creates,
                  CreateCall(conf.queue,
                      MainQueueAttributes(conf.queue, DefaultVisibilityTimeout)))
            /\ queues' = queues \cup {conf.queue}
            /\ queue_url' = QueueUrlOf(conf.queue)
       ELSE UNCHANGED <<creates, queues, queue_url>>
    /\ pc' = "error_queue"
    /\ UNCHANGED <<conf, mainQueueExists, errorQueueExists, runs>>
    /\ UNCHANGED loopVars

\* an initializer that never creates the error queue
EnsureErrorQueue_NoCreate ==
    /\ pc = "error_queue"
    /\ mainQueueExists' = FALSE
    /\ errorQueueExists' = FALSE
    /\ pc' = "ready"
    /\ UNCHANGED <<conf, queue_url, runs, creates, queues>>
    /\ UNCHANGED loopVars

\* lines 108-115: create the error queue if one is configured and not listed;
\* the locals of _initialize_client end with its return
EnsureErrorQueue ==
    /\ pc = "error_queue"
    /\ IF conf.error_queue # None /\ ~errorQueueExists
       THEN /\ creates' = Append(creates,
                  CreateCall(conf.error_queue,
                      ErrorQueueAttributes(conf.error_queue, DefaultVisibilityTimeout)))
            /\ queues' = queues \cup {conf.error_queue}
       ELSE UNCHANGED <<creates, queues>>
    /\ mainQueueExists' = FALSE
    /\ errorQueueExists' = FALSE
    /\ pc' = "ready"
    /\ UNCHANGED <<conf, queue_url, runs>>
    /\ UNCHANGED loopVars

\* a second consumer is constructed from the same configuration
Construct ==
    /\ pc = "ready"
    /\ runs < MaxRuns
    /\ runs' = runs + 1
    /\ queue_url' = None
    /\ pc' = "construct"
    /\ UNCHANGED <<conf, mainQueueExists, errorQueueExists, queues, creates>>
    /\ UNCHANGED loopVars

\* listen()
Listen ==
    /\ pc = "ready"
    /\ pc' = "polling"
    /\ UNCHANGED <<conf, queue_url, queues>>
    /\ UNCHANGED topologyVars
    /\ UNCHANGED loopVars

\* ------------------------------------------------------ queue service
\* a producer sends a message to the source queue; the consumer observes
\* the queue only in receive_message, so sends are taken between polls
SendMessage ==
    /\ pc = "polling"
    /\ conf.queue \in queues
    /\ \E m \in unsent :
          /\ unsent' = unsent \ {m}
          /\ inQueue' = inQueue \cup {m}
    /\ UNCHANGED <<conf, queue_url, pc, queues, inFlight, receives, batch, idx,
                   exc, trace, idle, handled>>
    /\ UNCHANGED topologyVars

\* the visibility timeout of a received, undeleted message expires
VisibilityTimeout ==
    /\ pc = "polling"
    /\ \E m \in inFlight : inFlight' = inFlight \ {m}
    /\ UNCHANGED <<conf, queue_url, pc, queues, unsent, inQueue, receives, batch,
                   idx, exc, trace, idle, handled>>
    /\ UNCHANGED topologyVars

Visible == inQueue \ inFlight

\* the responses receive_message may give: up to maxMessages distinct
\* visible messages, in any order
Batches(maxMessages) ==
    { b \in UNION { [1..k -> Visible] : k \in 1..maxMessages } :
        \A i, j \in DOMAIN b : i # j => b[i] # b[j] }

Message(m, n) == [ReceiptHandle |-> <<m, n>>, Body |-> BodyOf(m)]

\* whether the service accepts QueueUrl=url
QueueReachable(url) == url # None /\ LastSegment(url) \in queues

\* -------------------------------------------------- _start_listening
\* a call made for the current message: the operation, its argument and
\* the exception it raised (NoException when it returned)
Event(op, arg, raised) ==
    [op |-> op, ok |-> raised = NoException, arg |-> arg, raised |-> raised]

\* the exception launch_message raises when the send fails
PublishError ==
    [module |-> "botocore.exceptions", name |-> "ClientError",
     args |-> <<"SendMessage failed">>]

\* lines 122-129, 133: receive_message returns messages
ReceiveMessages ==
    /\ pc = "polling"
    /\ QueueReachable(queue_url)
    /\ receives < MaxReceives
    /\ \E b \in Batches(conf.max_number_of_messages) :
          /\ batch' = [i \in DOMAIN b |-> Message(b[i], receives + 1)]
          /\ inFlight' = inFlight \cup {b[i] : i \in DOMAIN b}
    /\ receives' = receives + 1
    /\ idx' = 1
    /\ trace' = <<>>
    /\ idle' = <<>>
    /\ pc' = "fetch"
    /\ UNCHANGED <<conf, queue_url, queues, unsent, inQueue, exc, handled>>
    /\ UNCHANGED topologyVars

\* lines 122-129, 168: receive_message returns no "Messages"
ReceiveNothing ==
    /\ pc = "polling"
    /\ QueueReachable(queue_url)
    /\ pc' = "sleeping"
    /\ idle' = <<"empty">>
    /\ UNCHANGED <<conf, queue_url, queues, unsent, inQueue, inFlight, receives,
                   batch, idx, exc, trace, handled>>
    /\ UNCHANGED topologyVars

\* lines 122-128: receive_message raises; nothing in the loop catches it
ReceiveFails ==
    /\ pc = "polling"
    /\ pc' = "crashed"
    /\ UNCHANGED <<conf, queue_url, queues>>
    /\ UNCHANGED topologyVars
    /\ UNCHANGED loopVars

\* a loop that polls again without sleeping
Sleep_Skipped ==
    /\ pc = "sleeping"
    /\ pc' = "polling"
    /\ UNCHANGED <<conf, queue_url, queues>>
    /\ UNCHANGED topologyVars
    /\ UNCHANGED loopVars

\* line 169: time.sleep(self._poll_interval)
Sleep ==
    /\ pc = "sleeping"
    /\ pc' = "polling"
    /\ idle' = Append(idle, "sleep")
    /\ UNCHANGED <<conf, queue_url, queues, unsent, inQueue, inFlight, receives,
                   batch, idx, exc, trace, handled>>
    /\ UNCHANGED topologyVars

\* the loop without the continue of line 144
ParseBody_NoSkip ==
    /\ pc = "fetch"
    /\ pc' = "parsed"
    /\ UNCHANGED <<conf, queue_url, queues>>
    /\ UNCHANGED topologyVars
    /\ UNCHANGED loopVars

\* lines 134-148: json.loads of the body; a failure skips the message
ParseBody ==
    /\ pc = "fetch"
    /\ pc' = IF JsonLoads(batch[idx].Body) = DecodeFailure
             THEN "settled"
             ELSE "parsed"
    /\ UNCHANGED <<conf, queue_url, queues>>
    /\ UNCHANGED topologyVars
    /\ UNCHANGED loopVars

\* delete_message issued first under either setting
DeletePosition_AlwaysFirst(force_delete) == "parsed"

\* where delete_message stands in the try block
DeletePosition(force_delete) == IF force_delete THEN "parsed" ELSE "handled"
\* handle_message issued first under either setting
HandlePosition_AlwaysFirst(force_delete) == "parsed"

\* where handle_message stands in the try block
HandlePosition(force_delete) == IF force_delete THEN "deleted" ELSE "parsed"

\* a delete_message that is called again after it raised
DeleteMessage_Retried ==
    /\ pc = DeletePosition(conf.force_delete)
    /\ LET h == batch[idx].ReceiptHandle
       IN /\ \/ /\ trace' = Append(trace, Event("delete", h, NoException))
                /\ inQueue' = inQueue \ {h[1]}
                /\ inFlight' = inFlight \ {h[1]}
                /\ pc' = IF conf.force_delete THEN "deleted" ELSE "settled"
             \/ /\ Len(trace) < 3
                /\ trace' = Append(trace, Event("delete", h, ClientError))
                /\ pc' = pc
                /\ UNCHANGED <<inQueue, inFlight>>
    /\ UNCHANGED <<conf, queue_url, queues, unsent, receives, batch, idx, exc, idle,
                   handled>>
    /\ UNCHANGED topologyVars

\* lines 151, 155: delete_message, which removes the message or raises
DeleteMessage ==
    /\ pc = DeletePosition(conf.force_delete)
    /\ LET h == batch[idx].ReceiptHandle
       IN \/ /\ trace' = Append(trace, Event("delete", h, NoException))
             /\ inQueue' = inQueue \ {h[1]}
             /\ inFlight' = inFlight \ {h[1]}
             /\ exc' = exc
             /\ pc' = IF conf.force_delete THEN "deleted" ELSE "settled"
          \/ /\ trace' = Append(trace, Event("delete", h, ClientError))
             /\ exc' = ClientError
             /\ pc' = "except"
             /\ UNCHANGED <<inQueue, inFlight>>
    /\ UNCHANGED <<conf, queue_url, queues, unsent, receives, batch, idx, idle,
                   handled>>
    /\ UNCHANGED topologyVars

\* lines 152, 154: handle_message, which returns or raises
HandleMessage ==
    /\ pc = HandlePosition(conf.force_delete)
    /\ LET params_dict == JsonLoads(batch[idx].Body)
       IN \/ /\ trace' = Append(trace, Event("handle", params_dict, NoException))
             /\ exc' = exc
             /\ pc' = IF conf.force_delete THEN "settled" ELSE "handled"
          \/ \E ex \in HandlerExceptions :
                /\ trace' = Append(trace, Event("handle", params_dict, ex))
                /\ exc' = ex
                /\ pc' = "except"
    /\ handled' = handled \cup {batch[idx].ReceiptHandle[1]}
    /\ UNCHANGED <<conf, queue_url, queues, unsent, inQueue, inFlight, receives,
                   batch, idx, idle>>
    /\ UNCHANGED topologyVars

\* an except block that never publishes
RoutesErrors_Never(error_queue_name) == FALSE

\* an except block that publishes without an error queue name
RoutesErrors_Always(error_queue_name) == TRUE

\* line 159: whether the except block publishes
RoutesErrors(error_queue_name) == error_queue_name # None

\* an except block that settles the message it failed on
ExceptBlock_Acks ==
    /\ pc = "except"
    /\ inQueue' = inQueue \ {batch[idx].ReceiptHandle[1]}
    /\ inFlight' = inFlight \ {batch[idx].ReceiptHandle[1]}
    /\ pc' = "settled"
    /\ exc' = NoException
    /\ UNCHANGED <<conf, queue_url, queues, unsent, receives, batch, idx, trace,
                   idle, handled>>
    /\ UNCHANGED topologyVars

\* lines 156-166: the except block; SqsLauncher(create_queue=True) creates
\* the error queue on demand and launch_message sends or raises.  A record
\* sent to an error queue named like the source queue is not followed as a
\* new message of the source queue.
ExceptBlock ==
    /\ pc = "except"
    /\ IF RoutesErrors(conf.error_queue)
       THEN LET sent == [queue |-> conf.error_queue, payload |-> FailureRecord(exc)]
            IN \/ /\ trace' = Append(trace, Event("publish", sent, NoException))
                  /\ queues' = queues \cup {conf.error_queue}
                  /\ pc' = "settled"
               \/ /\ trace' = Append(trace, Event("publish", sent, PublishError))
                  /\ queues' = queues
                  /\ pc' = "crashed"
       ELSE /\ pc' = "settled"
            /\ UNCHANGED <<trace, queues>>
    /\ exc' = NoException
    /\ UNCHANGED <<conf, queue_url, unsent, inQueue, inFlight, receives, batch, idx,
                   idle, handled>>
    /\ UNCHANGED topologyVars

\* a for loop left after its first message
NextMessage_Break ==
    /\ pc = "settled"
    /\ idx' = 0
    /\ pc' = "polling"
    /\ batch' = <<>>
    /\ trace' = <<>>
    /\ UNCHANGED <<conf, queue_url, queues, unsent, inQueue, inFlight, receives, exc,
                   idle, handled>>
    /\ UNCHANGED topologyVars

\* line 133: the for loop takes the next message, or the while loop polls again
NextMessage ==
    /\ pc = "settled"
    /\ IF idx < Len(batch)
       THEN /\ idx' = idx + 1
            /\ pc' = "fetch"
            /\ batch' = batch
       ELSE /\ idx' = 0
            /\ pc' = "polling"
            /\ batch' = <<>>
    /\ trace' = <<>>
    /\ UNCHANGED <<conf, queue_url, queues, unsent, inQueue, inFlight, receives, exc,
                   idle, handled>>
    /\ UNCHANGED topologyVars

Next ==
    \/ ReadConf
    \/ ListQueues
    \/ TopologyFails
    \/ EnsureMainQueue
    \/ EnsureErrorQueue
    \/ Construct
    \/ Listen
    \/ SendMessage
    \/ VisibilityTimeout
    \/ ReceiveMessages
    \/ ReceiveNothing
    \/ ReceiveFails
    \/ Sleep
    \/ ParseBody
    \/ DeleteMessage
    \/ HandleMessage
    \/ ExceptBlock
    \/ NextMessage

Spec == Init /\ [][Next]_vars

\* redelivery is studied for the configurations that keep a message after
\* a Handler failure (complete, force_delete false), on a queue service
\* that holds no queue yet
InitRedelivery ==
    /\ Init
    /\ conf.present = PoppedKeys
    /\ conf.queue = NameJobs
    /\ conf.queue_url = None
    /\ conf.error_queue \in {None, NameErrors}
    /\ ~conf.force_delete
    /\ conf.max_number_of_messages = MaxBatch
    /\ queues = {}

\* a step of the loop thread other than receive_message
LoopStep ==
    \/ Sleep
    \/ ParseBody
    \/ DeleteMessage
    \/ HandleMessage
    \/ ExceptBlock
    \/ NextMessage

\* the loop thread keeps running, visibility timeouts expire when they
\* can again and again, and receives return messages when they can again
\* and again
FairRedelivery ==
    /\ WF_vars(LoopStep)
    /\ SF_vars(VisibilityTimeout)
    /\ SF_vars(ReceiveMessages)

SpecRedelivery == InitRedelivery /\ [][Next]_vars /\ FairRedelivery

\* ---------------------------------------------------------- properties
\* positions at which the for loop holds a message batch[idx]
MessagePcs == {"fetch", "parsed", "deleted", "handled", "except", "settled"}
\* positions inside _start_listening
LoopPcs == MessagePcs \cup {"polling", "sleeping", "crashed"}

\* the processing of batch[idx] has ended
IterationOver ==
    \/ pc = "settled"
    \/ pc = "crashed" /\ idx > 0

Calls(op) == {i \in DOMAIN trace : trace[i].op = op}
HandlerReturned == \E i \in Calls("handle") : trace[i].ok
HandlerRaised == \E i \in Calls("handle") : ~trace[i].ok
CurrentHandle == batch[idx].ReceiptHandle
CurrentUnparsable ==
    /\ pc \in MessagePcs \cup {"crashed"}
    /\ idx > 0
    /\ JsonLoads(batch[idx].Body) = DecodeFailure

\* C1: with force_delete false, delete_message is called for a message's
\* receipt handle only after handle_message returned for it, is called once
\* the iteration is over whenever handle_message returned, and is never
\* called in an iteration in which handle_message raised.
C1_DeleteIffHandlerSucceeded ==
    ~conf.force_delete =>
        /\ \A i \in Calls("delete") :
              /\ trace[i].arg = CurrentHandle
              /\ \E j \in Calls("handle") : j < i /\ trace[j].ok
        /\ HandlerRaised => Calls("delete") = {}
        /\ (IterationOver /\ HandlerReturned) => Calls("delete") # {}

C1_Witness ==
    /\ ~conf.force_delete
    /\ pc = "settled"
    /\ Len(trace) = 2
    /\ trace[1].op = "handle" /\ trace[1].ok
    /\ trace[2].op = "delete" /\ trace[2].arg = CurrentHandle

\* C2: with force_delete true, every call of handle_message for a message
\* comes after a delete_message call for its receipt handle, and every
\* parsable message whose iteration is over had delete_message called,
\* whether handle_message returned or raised.
C2_DeleteBeforeHandler ==
    conf.force_delete =>
        /\ \A i \in Calls("handle") :
              \E j \in Calls("delete") : j < i /\ trace[j].arg = CurrentHandle
        /\ (IterationOver /\ ~CurrentUnparsable) => Calls("delete") # {}

C2_Witness ==
    /\ conf.force_delete
    /\ pc = "settled"
    /\ Len(trace) >= 2
    /\ trace[1].op = "delete" /\ trace[1].arg = CurrentHandle
    /\ trace[2].op = "handle" /\ ~trace[2].ok

\* C3: for a message whose body json.loads rejects, under either
\* force_delete setting, no delete_message, handle_message or publish call
\* is made, the message is still in the source queue, and the loop is at the
\* parse step or past the message, never in the try or except block.
C3_UnparsableSkipped ==
    CurrentUnparsable =>
        /\ trace = <<>>
        /\ pc \in {"fetch", "settled"}
        /\ CurrentHandle[1] \in inQueue

C3_Witness ==
    /\ CurrentUnparsable
    /\ pc = "settled"
    /\ conf.force_delete
    /\ conf.error_queue # None
    /\ idx < Len(batch)

Publishes == Calls("publish")

\* C4: a launch_message call that raises does not end the loop.
C4_PublishFailureKeepsLooping ==
    (\E i \in Publishes : ~trace[i].ok) => pc # "crashed"

\* C5: inside the poll loop, self._queue_url is the URL of the configured
\* queue, whether _initialize_client created the queue or found it listed.
C5_QueueUrlResolved ==
    pc \in LoopPcs => queue_url = QueueUrlOf(conf.queue)

\* C6: with an error queue configured, under either force_delete setting,
\* at most one publish call is made per message, and an iteration in which
\* handle_message raised ends with exactly one publish call, addressed to
\* the configured error queue.
C6_OnePublishPerHandlerFailure ==
    conf.error_queue # None =>
        /\ Cardinality(Publishes) <= 1
        /\ \A i \in Publishes : trace[i].arg.queue = conf.error_queue
        /\ (IterationOver /\ HandlerRaised) => Cardinality(Publishes) = 1

C6_Witness ==
    /\ conf.error_queue # None
    /\ pc = "settled"
    /\ HandlerRaised
    /\ \E i \in Publishes : trace[i].ok

\* the exception handle_message raised for the current message
RaisedByHandler == trace[CHOOSE j \in Calls("handle") : ~trace[j].ok].raised

\* C7 as claimed: the payload published for a Handler exception carries the
\* exception's type name and the string form of its argument tuple.
C7_TypeNameAndArgs ==
    HandlerRaised =>
        \A i \in Publishes :
            /\ trace[i].arg.payload.exception_type = RaisedByHandler.name
            /\ trace[i].arg.payload.error_message = StrOfArgs(RaisedByHandler.args)

\* what Python prints for the exceptions of HandlerExceptions
C7_PythonStr(ex) ==
    CASE ex.name = "ValueError" ->
            [exception_type |-> "<class 'ValueError'>",
             error_message |-> "('bad id',)"]
      [] ex.name = "OrderError" ->
            [exception_type |-> "<class 'app.errors.OrderError'>",
             error_message |-> "('a', 'b')"]
      [] ex.name = "KeyError" ->
            [exception_type |-> "<class 'KeyError'>",
             error_message |-> "()"]

\* C7 amended: the payload published for a Handler exception carries the
\* string form of the exception's class ("<class 'ValueError'>") and the
\* string form of its argument tuple ("('bad id',)").
C7_ClassStrAndArgs ==
    HandlerRaised =>
        \A i \in Publishes : trace[i].arg.payload = C7_PythonStr(RaisedByHandler)

C7_Witness ==
    /\ HandlerRaised
    /\ RaisedByHandler.name = "ValueError"
    /\ \E i \in Publishes :
          /\ trace[i].ok
          /\ trace[i].arg.payload.error_message = "('bad id',)"

\* C8: with no error queue configured, no publish call is ever made, a
\* raising handle_message leaves the loop running (it ends only when
\* receive_message raises), the except block leads to the end of the
\* iteration, and the end of an iteration leads to the next message of the
\* batch or to the next receive.
C8_NoErrorQueueInv ==
    conf.error_queue = None =>
        /\ Publishes = {}
        /\ pc = "crashed" => (idx = 0 /\ trace = <<>>)

C8_NoErrorQueueStep ==
    conf.error_queue = None =>
        /\ pc = "except" => (pc' = "settled" /\ idx' = idx /\ batch' = batch)
        /\ (pc = "settled" /\ idx < Len(batch)) =>
              (pc' = "fetch" /\ idx' = idx + 1 /\ batch' = batch)
        /\ (pc = "settled" /\ idx = Len(batch)) => pc' = "polling"

C8_HandlerErrorAbsorbed == []C8_NoErrorQueueInv /\ [][C8_NoErrorQueueStep]_vars

C8_Witness ==
    /\ conf.error_queue = None
    /\ pc = "settled"
    /\ HandlerRaised
    /\ idx < Len(batch)
    /\ receives < MaxReceives

\* C9: a delete_message call that raises is not repeated for that message
\* and does not end the loop.
C9_DeleteFailureKeepsLooping ==
    (\E i \in Calls("delete") : ~trace[i].ok) =>
        /\ Cardinality(Calls("delete")) = 1
        /\ pc # "crashed"

\* both runs of _initialize_client have returned
RanTwice == runs >= 2 /\ pc \in {"ready"} \cup LoopPcs

\* a create_queue call the service can reject as a duplicate: the name
\* exists and was not created with these attributes
Duplicate(k) ==
    /\ creates[k].existed
    /\ ~\E j \in 1..(k - 1) :
          /\ creates[j].QueueName = creates[k].QueueName
          /\ creates[j].Attributes = creates[k].Attributes

Initialized == pc \in {"ready"} \cup LoopPcs

\* C11 as claimed: once _initialize_client has returned, the configured
\* queue exists, the error queue exists if one is configured, and without
\* an error queue name only the main queue was ever created.
C11_QueuesExist ==
    Initialized =>
        /\ conf.queue \in queues
        /\ conf.error_queue # None => conf.error_queue \in queues
        /\ conf.error_queue = None =>
              \A k \in DOMAIN creates : creates[k].QueueName = conf.queue

\* C11 amended: the same, the existence of the configured queue being
\* ensured only when the configuration carries no queue_url.
C11_QueuesExistWithoutPresetUrl ==
    Initialized =>
        /\ conf.queue_url = None => conf.queue \in queues
        /\ conf.error_queue # None => conf.error_queue \in queues
        /\ conf.error_queue = None =>
              \A k \in DOMAIN creates : creates[k].QueueName = conf.queue

C11_Witness ==
    /\ pc = "ready"
    /\ runs = 1
    /\ conf.error_queue = NameErrorsFifo
    /\ conf.queue_url = None
    /\ creates # <<>>
    /\ creates[Len(creates)].QueueName = NameErrorsFifo
    /\ ~creates[Len(creates)].existed

\* C12: every create_queue call of _initialize_client sends FifoQueue
\* exactly when the queue name ends with ".fifo".
C12_FifoAttributeIffSuffix ==
    \A k \in DOMAIN creates :
        (creates[k].Attributes.FifoQueue = "true")
            <=> EndsWith(creates[k].QueueName, FifoSuffix)

\* C14: a configuration that holds a queue name and none of the other keys
\* is constructed without a configuration error.
C14_OnlyQueueNameSuffices ==
    (conf.present = {"queue"} /\ conf.queue # None) => pc # "conf_error"

\* C15: a configuration without a queue name (the key absent, or None)
\* never gets past the reading of conf: the first step of construction
\* raises, list_queues and create_queue are never called and the poll loop
\* is never entered.
C15_NoQueueNameInv ==
    conf.queue = None =>
        /\ pc \in {"construct", "conf_error"}
        /\ creates = <<>>
        /\ receives = 0

C15_NoQueueNameStep ==
    (conf.queue = None /\ pc = "construct") => pc' = "conf_error"

C15_NoQueueNameFailsFirst == []C15_NoQueueNameInv /\ [][C15_NoQueueNameStep]_vars

C15_Witness ==
    /\ conf.queue = None
    /\ CredentialKeys \subseteq conf.present
    /\ pc = "conf_error"

\* C13: after a receive that returned no messages the loop sleeps, and it
\* is back at the receive call only after exactly one sleep; until the next
\* receive it makes no delete, Handler or publish call.
C13_SleepOnceAfterEmptyReceive ==
    /\ pc = "sleeping" => idle = <<"empty">>
    /\ pc = "polling" => idle \in {<<>>, <<"empty", "sleep">>}
    /\ idle # <<>> =>
          /\ pc \in {"sleeping", "polling", "crashed"}
          /\ trace = <<>>
          /\ batch = <<>>

C13_Witness ==
    /\ pc = "polling"
    /\ idle = <<"empty", "sleep">>
    /\ Visible # {}

\* C16: delete_message is called at most once in the iteration of a
\* message and only with that message's receipt handle; the handles of a
\* batch are distinct and were issued by the latest receive; and the for
\* loop never returns to an earlier message of the batch nor forgets the
\* calls made for the current one.
C16_OneDeleteInv ==
    /\ Cardinality(Calls("delete")) <= 1
    /\ \A i \in Calls("delete") : trace[i].arg = CurrentHandle
    /\ \A i, j \in DOMAIN batch :
          /\ batch[i].ReceiptHandle[2] = receives
          /\ i # j => batch[i].ReceiptHandle # batch[j].ReceiptHandle

C16_OneDeleteStep ==
    /\ receives' >= receives
    /\ (receives' = receives /\ batch' # <<>>) =>
          /\ batch' = batch
          /\ idx' >= idx
          /\ idx' = idx => SubSeq(trace', 1, Len(trace)) = trace

C16_DeleteAtMostOnce == []C16_OneDeleteInv /\ [][C16_OneDeleteStep]_vars

C16_Witness ==
    /\ pc = "settled"
    /\ idx = 2
    /\ conf.force_delete
    /\ \E i \in Calls("delete") : ~trace[i].ok
    /\ batch[1].ReceiptHandle[1] \notin inQueue

\* C17: a receive is issued only with no batch in hand; the loop returns
\* to the receive call only from the end of the iteration of the last
\* message of the batch; within a batch the messages are taken one by one
\* in the order received, each from the parse step; and handle_message is
\* called at most once per message and only for the current message.
C17_SequentialInv ==
    /\ pc \in {"polling", "sleeping"} => (batch = <<>> /\ idx = 0)
    /\ pc \in MessagePcs => idx \in DOMAIN batch
    /\ Cardinality(Calls("handle")) <= 1
    /\ \A i \in Calls("handle") :
          trace[i].arg = JsonLoads(batch[idx].Body)

C17_SequentialStep ==
    /\ receives' # receives =>
          (pc = "polling" /\ batch = <<>> /\ pc' = "fetch" /\ idx' = 1)
    /\ (pc \in MessagePcs /\ pc' = "polling") =>
          (pc = "settled" /\ idx = Len(batch))
    /\ (pc \in MessagePcs /\ pc' \in MessagePcs) =>
          /\ batch' = batch
          /\ \/ idx' = idx
             \/ idx' = idx + 1 /\ pc = "settled" /\ pc' = "fetch" /\ trace' = <<>>

C17_DrainBeforePoll == []C17_SequentialInv /\ [][C17_SequentialStep]_vars

C17_Witness ==
    /\ pc = "polling"
    /\ receives = 1
    /\ Cardinality(handled) = 2
    /\ idle = <<>>

\* the step is a call of op for the current message
CallStep(op) ==
    /\ Len(trace') = Len(trace) + 1
    /\ trace'[Len(trace')].op = op

\* C18: with force_delete true, handle_message is called for a message
\* only after a delete_message call for its handle returned, never in an
\* iteration whose delete_message raised, and never for a message it was
\* called for before, in this or an earlier receive; a message it was
\* called for is no longer in the queue.
C18_ForceDeleteInv ==
    conf.force_delete =>
        /\ \A i \in Calls("handle") :
              \E j \in Calls("delete") :
                  j < i /\ trace[j].ok /\ trace[j].arg = CurrentHandle
        /\ (\E j \in Calls("delete") : ~trace[j].ok) => Calls("handle") = {}
        /\ handled \cap inQueue = {}

C18_ForceDeleteStep ==
    (conf.force_delete /\ CallStep("handle")) =>
        /\ CurrentHandle[1] \notin handled
        /\ handled' = handled \cup {CurrentHandle[1]}

C18_HandlerAtMostOnce == []C18_ForceDeleteInv /\ [][C18_ForceDeleteStep]_vars

\* the only message ever sent is handled in its second receive
C18_Witness ==
    /\ conf.force_delete
    /\ Cardinality(unsent) = NumMsgs - 1
    /\ receives = 2
    /\ pc = "settled"
    /\ Calls("handle") # {}
    /\ CurrentHandle[2] = 2

\* C20: a publish call is made only in an iteration whose handle_message
\* call raised.
C20_PublishOnlyForHandlerFailure ==
    Publishes # {} => HandlerRaised

\* the loop is in the except block after handle_message raised for m
RaisedFor(m) ==
    /\ pc = "except"
    /\ CurrentHandle[1] = m
    /\ HandlerRaised

\* message m is about to be passed to handle_message (force_delete false)
HandedToHandler(m) ==
    /\ pc = "parsed"
    /\ CurrentHandle[1] = m

\* C19: with force_delete false, a message whose handle_message call raised
\* is still in the source queue; a message leaves the queue only in the
\* iteration in which handle_message returned for it; and, the loop running
\* on and timeouts expiring, a message whose handle_message call raised is
\* handed to handle_message again (the loop, which never returns to an
\* earlier message of a batch, is back before the Handler call with that
\* message), unless the loop has ended or the receives of the model are
\* used up.
C19_KeptInv ==
    (~conf.force_delete /\ HandlerRaised) => CurrentHandle[1] \in inQueue

C19_KeptStep ==
    ~conf.force_delete =>
        \A m \in inQueue \ inQueue' :
            /\ pc = "handled"
            /\ CurrentHandle[1] = m
            /\ HandlerReturned

C19_Redelivered ==
    \A m \in Msgs :
        (~conf.force_delete /\ RaisedFor(m)) ~>
            (HandedToHandler(m) \/ pc = "crashed" \/ receives = MaxReceives)

C19_AtLeastOnce ==
    /\ []C19_KeptInv
    /\ [][C19_KeptStep]_vars
    /\ C19_Redelivered

\* the only message sent, kept by the queue after its first receive, is
\* passed to handle_message in its second receive and then leaves the queue
C19_Witness ==
    /\ ~conf.force_delete
    /\ Cardinality(unsent) = NumMsgs - 1
    /\ receives = 2
    /\ pc = "settled"
    /\ CurrentHandle[2] = 2
    /\ HandlerReturned
    /\ CurrentHandle[1] \notin inQueue
====
